---- MODULE Spec2Model ----
(***************************************************************************)
(* Control-mode sessions of openarm_can: apps/query_control_mode.cpp (the  *)
(* query session) and apps/set_control_mode.cpp (the set session).         *)
(*                                                                         *)
(* Both programs are one sequential main(); the model gives one action per *)
(* statement that touches the bus or the registry, so that a transport     *)
(* fault can strike between any two of them.  The OpenArm library the apps *)
(* call (registry, callback-mode switch, query/write/disable broadcasts,   *)
(* recv_all) and the motors on the bus are modelled from the               *)
(* specification's sections 3, 4 and 6.                                    *)
(***************************************************************************)
EXTENDS Integers, Sequences, FiniteSets, TLC

VARIABLES
    prog,       \* which program runs: "query" or "set"
    argc,       \* main's argc
    pc,         \* position of main
    opened,     \* the OpenArm object (bus channel) has been constructed
    motors,     \* registry: send ids in registration order
    mode,       \* registry: callback mode of each registered motor
    param,      \* registry: recorded CTRL_MODE value of each registered motor
    dev,        \* the motors themselves: CTRL_MODE register of each device
    inflight,   \* frames sent by the devices and not yet collected
    arrived,    \* source addresses of the frames handled by the last recv_all
    target,     \* target_control_mode
    read_ok,    \* std::cin >> target_control_mode extracted an integer
    rejected,   \* "Invalid control mode value received" was printed
    rendered,   \* one entry per print pass: the registry's value of each motor
    printed,    \* one entry per print pass: control_mode_code of each motor
    missing,    \* what get_param returns for a parameter never recorded
    ops,        \* operations issued on the OpenArm object, in order
    fault,      \* the operation that threw, "none" if none did
    reported,   \* what was written to std::cerr: "none", "usage" or "error"
    exit_code   \* return value of main, NotExited while running

vars == <<prog, argc, pc, opened, motors, mode, param, dev, inflight, arrived,
          target, read_ok, rejected, rendered, printed, missing, ops, fault,
          reported, exit_code>>

----------------------------------------------------------------------------
(* Bounds of the model *)

\* the source registers 7 arm motors (send ids 0x01..0x07); the model keeps
\* the first NumArm of them, and the gripper
NumArm == 2
\* main is started with 1..MaxArgc arguments (argv[0] included)
MaxArgc == 4
\* the operator types an integer from minMode - TargetSlack to maxMode + TargetSlack
TargetSlack == 1
\* inbound address of a bus node that is not a registered motor
ForeignRecvId == 32

----------------------------------------------------------------------------
(* Program constants *)

GripperSendId == 8
RecvIdOffset == 16
QueryTimeout == 2000
DisableTimeout == 1000
UsageReturn == 1
CatchReturn == -1
SuccessReturn == 0
TargetDefault == 0

\* openarm::damiao_motor::MotorControlMode range markers
minMode == 0
maxMode == 5
\* openarm::damiao_motor::CallbackMode
CallbackSTATE == 0
CallbackPARAM == 1

NotExited == 99

ArmSendIds == 1..NumArm
AllMotors == ArmSendIds \cup {GripperSendId}
RecvId(m) == m + RecvIdOffset

\* read_value: a set with no element is NotYetObserved, {v} is Observed(v)
NotYetObserved == {}
Observed(v) == {v}

Max(a, b) == IF a > b THEN a ELSE b

Range(s) == {s[i] : i \in DOMAIN s}

Op(name, a) == [op |-> name, arg |-> a]

----------------------------------------------------------------------------
(* Pure parts of main *)

\* static_cast<uint8_t>(motor.get_param(...)) on an observed code
ToUint8(v) == v % 256

\* the registry's view of a motor at a print pass: nothing for a motor that
\* was never observed, the code as uint8_t otherwise
RenderValue(s) == {ToUint8(v) : v \in s}

\* what motor.get_param can return for a parameter that was never recorded:
\* a default-constructed 0, or a sentinel below every code
MissingDefaults == {0, -1}

\* motor.get_param(CTRL_MODE): the recorded value, the default d without one
GetParam(s, d) == IF s = NotYetObserved THEN d ELSE CHOOSE v \in s : TRUE

\* uint8_t control_mode_code { static_cast<uint8_t>(motor.get_param(...)) }
ControlModeCode(s, d) == ToUint8(GetParam(s, d))

\* variant of the listing loop that starts at minMode itself
AvailableModes_FromMin == {i \in minMode..Max(minMode, maxMode) : i < maxMode}

\* the codes listed under "Available modes"
AvailableModes == {i \in (minMode + 1)..Max(minMode + 1, maxMode) : i < maxMode}

\* variants of the validation with one boundary included
TargetValid_UpperInclusive(t) == (minMode < t) /\ (t <= maxMode)
TargetValid_LowerInclusive(t) == (minMode <= t) /\ (t < maxMode)

\* target_control_mode_valid
TargetValid(t) == (minMode < t) /\ (t < maxMode)

\* variant of the argument check without the upper limit
BadArgc_NoUpper(n) == n < 2

\* argc != 2 && argc != 3
BadArgc(n) == n # 2 /\ n # 3

\* variant of the handler returning the usage status
CatchValue_Usage == UsageReturn

\* the value catch (const std::exception&) returns
CatchValue == CatchReturn

\* variant in which the query session goes to disable_all without the
\* switch to STATE
AfterFirstPrint_NoRestore(p) == IF p = "query" THEN "disable" ELSE "read_target"

\* pc after the first print_control_mode: the query session goes to cleanup
AfterFirstPrint(p) == IF p = "query" THEN "cleanup_mode" ELSE "read_target"

\* variant of the rejection branch that leaves out the second print pass
AfterInvalid_Cleanup == "cleanup_mode"

\* pc after the validation branch of the set session
AfterInvalid == "p2_mode"

----------------------------------------------------------------------------
(* The library and the devices *)

\* frame a device sends back: its inbound address and the register value
Frame(src, v) == [src |-> src, val |-> v]

\* replies of the motors in ms to a request, each carrying its register
Replies(ms, d) == {Frame(RecvId(m), d[m]) : m \in ms}

\* a frame of a node that is no registered motor
ForeignFrame == Frame(ForeignRecvId, minMode + 1)

\* the first k motors of the registry (a broadcast that throws stops there)
Prefix(k) == {motors[i] : i \in 1..k}

\* variant of the dispatch that records whatever the callback mode is
Dispatch_IgnoresMode(p, md, frames) ==
    [m \in DOMAIN p |->
        IF \E f \in frames : f.src = RecvId(m)
        THEN Observed((CHOOSE f \in frames : f.src = RecvId(m)).val)
        ELSE p[m]]

\* variant of the dispatch in which the gripper takes every frame from its
\* own address upwards
Dispatch_NoExactMatch(p, md, frames) ==
    [m \in DOMAIN p |->
        IF md[m] = CallbackPARAM
           /\ \E f \in frames : f.src = RecvId(m)
                                 \/ (m = GripperSendId /\ f.src > RecvId(m))
        THEN Observed((CHOOSE f \in frames :
                          f.src = RecvId(m)
                          \/ (m = GripperSendId /\ f.src > RecvId(m))).val)
        ELSE p[m]]

\* dispatch of one collected set of frames: a frame is resolved to the motor
\* with that inbound address; in PARAM mode its value is recorded, in STATE
\* mode it is telemetry and the recorded value stays
Dispatch(p, md, frames) ==
    [m \in DOMAIN p |->
        IF md[m] = CallbackPARAM /\ \E f \in frames : f.src = RecvId(m)
        THEN Observed((CHOOSE f \in frames : f.src = RecvId(m)).val)
        ELSE p[m]]

\* variant of the handler that disables the motors before it returns
Throw_Disables(name, a) ==
    /\ ops' = ops \o <<Op(name, a), Op("disable_all", 0)>>
    /\ fault' = name
    /\ reported' = "error"
    /\ exit_code' = CatchValue
    /\ pc' = "done"

\* variant of the handler that keeps status 0 for a fault in the cleanup
Throw_BestEffort(name, a) ==
    /\ ops' = Append(ops, Op(name, a))
    /\ fault' = name
    /\ reported' = "error"
    /\ exit_code' = IF name = "disable_all" \/ a = DisableTimeout
                    THEN SuccessReturn ELSE CatchValue
    /\ pc' = "done"

\* catch (const std::exception& e): report and return -1
Throw(name, a) ==
    /\ ops' = Append(ops, Op(name, a))
    /\ fault' = name
    /\ reported' = "error"
    /\ exit_code' = CatchValue
    /\ pc' = "done"

Issue(name, a, nextpc) ==
    /\ ops' = Append(ops, Op(name, a))
    /\ pc' = nextpc
    /\ UNCHANGED <<fault, reported, exit_code>>

----------------------------------------------------------------------------
(* Initial states *)

DevInits ==
    {[m \in AllMotors |-> c] : c \in {minMode, minMode + 1}}
        \cup {[m \in AllMotors |-> (m % 3) + 1]}

Init ==
    /\ prog \in {"query", "set"}
    /\ argc \in 1..MaxArgc
    /\ pc = "start"
    /\ opened = FALSE
    /\ motors = <<>>
    /\ mode = <<>>
    /\ param = <<>>
    /\ dev \in DevInits
    /\ inflight = {}
    /\ arrived = {}
    /\ target = TargetDefault
    /\ read_ok = TRUE
    /\ rejected = FALSE
    /\ rendered = <<>>
    /\ printed = <<>>
    /\ missing \in MissingDefaults
    /\ ops = <<>>
    /\ fault = "none"
    /\ reported = "none"
    /\ exit_code = NotExited

----------------------------------------------------------------------------
(* Steps of main *)

\* if (argc != 2 && argc != 3) { usage; return 1; }
CheckArgs ==
    /\ pc = "start"
    /\ IF BadArgc(argc)
       THEN /\ pc' = "done"
            /\ reported' = "usage"
            /\ exit_code' = UsageReturn
       ELSE /\ pc' = "open"
            /\ UNCHANGED <<reported, exit_code>>
    /\ UNCHANGED <<prog, missing, argc, opened, motors, mode, param, dev, inflight,
                   arrived, target, read_ok, rejected, rendered, printed, ops, fault>>

\* openarm::can::socket::OpenArm openarm(can_interface, can_fd)
Open ==
    /\ pc = "open"
    /\ \E f \in BOOLEAN :
        IF f THEN Throw("open", 0) /\ UNCHANGED opened
        ELSE Issue("open", 0, "init_arm") /\ opened' = TRUE
    /\ UNCHANGED <<prog, missing, argc, motors, mode, param, dev, inflight, arrived,
                   target, read_ok, rejected, rendered, printed>>

\* registration of the motors in ids: callback mode STATE, nothing observed
Register(ids) ==
    /\ motors' = motors \o ids
    /\ mode' = [m \in DOMAIN mode \cup Range(ids) |->
                   IF m \in DOMAIN mode THEN mode[m] ELSE CallbackSTATE]
    /\ param' = [m \in DOMAIN param \cup Range(ids) |->
                   IF m \in DOMAIN param THEN param[m] ELSE NotYetObserved]

\* openarm.init_arm_motors(motor_types, send_can_ids, recv_can_ids)
InitArmMotors ==
    /\ pc = "init_arm"
    /\ \E f \in BOOLEAN :
        IF f THEN Throw("init_arm_motors", 0) /\ UNCHANGED <<motors, mode, param>>
        ELSE Issue("init_arm_motors", 0, "init_gripper")
             /\ Register([i \in 1..NumArm |-> i])
    /\ UNCHANGED <<prog, missing, argc, opened, dev, inflight, arrived, target, read_ok,
                   rejected, rendered, printed>>

\* openarm.init_gripper_motor(MotorType::DM4310, 0x08, 0x18)
InitGripperMotor ==
    /\ pc = "init_gripper"
    /\ \E f \in BOOLEAN :
        IF f THEN Throw("init_gripper_motor", 0) /\ UNCHANGED <<motors, mode, param>>
        ELSE Issue("init_gripper_motor", 0, "p1_mode")
             /\ Register(<<GripperSendId>>)
    /\ UNCHANGED <<prog, missing, argc, opened, dev, inflight, arrived, target, read_ok,
                   rejected, rendered, printed>>

\* variant of the switch that reaches the arm only
SetCallbackModeParam_ArmOnly ==
    /\ pc \in {"p1_mode", "p2_mode"}
    /\ mode' = [m \in DOMAIN mode |->
                   IF m = GripperSendId THEN mode[m] ELSE CallbackPARAM]
    /\ Issue("set_callback_mode_all", CallbackPARAM,
             IF pc = "p1_mode" THEN "p1_query" ELSE "p2_query")
    /\ UNCHANGED <<prog, missing, argc, opened, motors, param, dev, inflight, arrived,
                   target, read_ok, rejected, rendered, printed>>

\* openarm.set_callback_mode_all(CallbackMode::PARAM), in print_control_mode
SetCallbackModeParam ==
    /\ pc \in {"p1_mode", "p2_mode"}
    /\ mode' = [m \in DOMAIN mode |-> CallbackPARAM]
    /\ Issue("set_callback_mode_all", CallbackPARAM,
             IF pc = "p1_mode" THEN "p1_query" ELSE "p2_query")
    /\ UNCHANGED <<prog, missing, argc, opened, motors, param, dev, inflight, arrived,
                   target, read_ok, rejected, rendered, printed>>

\* openarm.query_param_all(CTRL_MODE): a read request to every motor in
\* registration order; each motor reached answers with its register
QueryParamAll ==
    /\ pc \in {"p1_query", "p2_query"}
    /\ \E f \in BOOLEAN :
        IF f THEN /\ Throw("query_param_all", 0)
                  /\ \E k \in 0..Len(motors) :
                        inflight' = Replies(Prefix(k), dev)
        ELSE /\ Issue("query_param_all", 0,
                      IF pc = "p1_query" THEN "p1_recv" ELSE "p2_recv")
             /\ inflight' = Replies(Range(motors), dev) \cup {ForeignFrame}
    /\ UNCHANGED <<prog, missing, argc, opened, motors, mode, param, dev, arrived,
                   target, read_ok, rejected, rendered, printed>>

\* openarm.recv_all(timeout): the frames that arrive inside the window are
\* dispatched, the others are not processed
RecvAll ==
    /\ pc \in {"p1_recv", "write_recv", "p2_recv", "disable_recv"}
    /\ LET timeout == IF pc = "disable_recv" THEN DisableTimeout ELSE QueryTimeout
           nextpc == CASE pc = "p1_recv" -> "p1_render"
                       [] pc = "write_recv" -> "p2_mode"
                       [] pc = "p2_recv" -> "p2_render"
                       [] pc = "disable_recv" -> "return"
       IN \E got \in SUBSET inflight :
            /\ param' = Dispatch(param, mode, got)
            /\ arrived' = {f.src : f \in got}
            /\ inflight' = {}
            /\ \E f \in BOOLEAN :
                 IF f THEN Throw("recv_all", timeout)
                 ELSE Issue("recv_all", timeout, nextpc)
    /\ UNCHANGED <<prog, missing, argc, opened, motors, mode, dev, target, read_ok,
                   rejected, rendered, printed>>

\* variant of the print pass that switches back to STATE when it is done
Render_RestoresState ==
    /\ pc \in {"p1_render", "p2_render"}
    /\ rendered' = Append(rendered, [m \in DOMAIN param |-> RenderValue(param[m])])
    /\ printed' = Append(printed,
                      [m \in DOMAIN param |-> ControlModeCode(param[m], missing)])
    /\ mode' = [m \in DOMAIN mode |-> CallbackSTATE]
    /\ pc' = IF pc = "p1_render" THEN AfterFirstPrint(prog) ELSE "cleanup_mode"
    /\ UNCHANGED <<prog, missing, argc, opened, motors, param, dev, inflight,
                   arrived, target, read_ok, rejected, ops, fault, reported, exit_code>>

\* variant of the print pass that throws on a motor that was never observed
Render_ThrowsOnMissing ==
    /\ pc \in {"p1_render", "p2_render"}
    /\ IF \E m \in DOMAIN param : param[m] = NotYetObserved
       THEN /\ fault' = "render"
            /\ reported' = "error"
            /\ exit_code' = CatchValue
            /\ pc' = "done"
            /\ UNCHANGED <<rendered, printed>>
       ELSE /\ rendered' = Append(rendered,
                               [m \in DOMAIN param |-> RenderValue(param[m])])
            /\ printed' = Append(printed,
                              [m \in DOMAIN param |-> ControlModeCode(param[m], missing)])
            /\ pc' = IF pc = "p1_render" THEN AfterFirstPrint(prog)
                     ELSE "cleanup_mode"
            /\ UNCHANGED <<fault, reported, exit_code>>
    /\ UNCHANGED <<prog, missing, argc, opened, motors, mode, param, dev, inflight,
                   arrived, target, read_ok, rejected, ops>>

\* the two range-for loops of a print pass: one line per arm motor, then
\* one per gripper motor
Render ==
    /\ pc \in {"p1_render", "p2_render"}
    /\ rendered' = Append(rendered, [m \in DOMAIN param |-> RenderValue(param[m])])
    /\ printed' = Append(printed,
                      [m \in DOMAIN param |-> ControlModeCode(param[m], missing)])
    /\ pc' = IF pc = "p1_render" THEN AfterFirstPrint(prog) ELSE "cleanup_mode"
    /\ UNCHANGED <<prog, missing, argc, opened, motors, mode, param, dev, inflight,
                   arrived, target, read_ok, rejected, ops, fault, reported, exit_code>>

\* variant of the read in which a failed extraction leaves an arbitrary value
ReadTarget_Uninitialised ==
    /\ pc = "read_target"
    /\ \E ok \in BOOLEAN, t \in (minMode - TargetSlack)..(maxMode + TargetSlack) :
        /\ read_ok' = ok
        /\ target' = t
    /\ pc' = "validate"
    /\ UNCHANGED <<prog, missing, argc, opened, motors, mode, param, dev, inflight,
                   arrived, rejected, rendered, printed, ops, fault, reported, exit_code>>

\* std::cin >> target_control_mode: the integer typed, or 0 when no integer
\* could be extracted
ReadTarget ==
    /\ pc = "read_target"
    /\ \E ok \in BOOLEAN, t \in (minMode - TargetSlack)..(maxMode + TargetSlack) :
        /\ read_ok' = ok
        /\ target' = IF ok THEN t ELSE TargetDefault
    /\ pc' = "validate"
    /\ UNCHANGED <<prog, missing, argc, opened, motors, mode, param, dev, inflight,
                   arrived, rejected, rendered, printed, ops, fault, reported, exit_code>>

\* the frames the motors send after disable_all: state telemetry, whose
\* payload is no register value
Telemetry(ms) == {Frame(RecvId(m), maxMode) : m \in ms}

\* effect of a write request on the motors in ms: each stores the value and
\* echoes it
Written(ms, v) ==
    /\ dev' = [m \in AllMotors |-> IF m \in ms THEN v ELSE dev[m]]
    /\ inflight' = Replies(ms, [m \in AllMotors |-> v])

\* variant of the write that hands over a neighbouring code
WriteValue_OffByOne(t) == t - 1

\* the value handed to write_param_all
WriteValue(t) == t

\* variant of the write without its collection window
WriteParamAll_NoWindow ==
    /\ pc = "validate"
    /\ TargetValid(target)
    /\ \E f \in BOOLEAN :
        IF f THEN /\ Throw("write_param_all", WriteValue(target))
                  /\ \E k \in 0..Len(motors) : Written(Prefix(k), WriteValue(target))
        ELSE /\ Issue("write_param_all", WriteValue(target), "p2_mode")
             /\ Written(Range(motors), WriteValue(target))
    /\ UNCHANGED <<prog, missing, argc, opened, motors, mode, param, arrived, target,
                   read_ok, rejected, rendered, printed>>

\* if (target_control_mode_valid) { openarm.write_param_all(CTRL_MODE, target);
WriteParamAll ==
    /\ pc = "validate"
    /\ TargetValid(target)
    /\ \E f \in BOOLEAN :
        IF f THEN /\ Throw("write_param_all", WriteValue(target))
                  /\ \E k \in 0..Len(motors) : Written(Prefix(k), WriteValue(target))
        ELSE /\ Issue("write_param_all", WriteValue(target), "write_recv")
             /\ Written(Range(motors), WriteValue(target))
    /\ UNCHANGED <<prog, missing, argc, opened, motors, mode, param, arrived, target,
                   read_ok, rejected, rendered, printed>>

\* else: "Invalid control mode value received: ..."
RejectTarget ==
    /\ pc = "validate"
    /\ ~TargetValid(target)
    /\ rejected' = TRUE
    /\ pc' = AfterInvalid
    /\ UNCHANGED <<prog, missing, argc, opened, motors, mode, param, dev, inflight,
                   arrived, target, read_ok, rendered, printed, ops, fault, reported,
                   exit_code>>

\* variant of the cleanup that returns without switching or disabling
SetCallbackModeState_Skip ==
    /\ pc = "cleanup_mode"
    /\ pc' = "return"
    /\ UNCHANGED <<prog, missing, argc, opened, motors, mode, param, dev, inflight,
                   arrived, target, read_ok, rejected, rendered, printed, ops, fault,
                   reported, exit_code>>

\* openarm.set_callback_mode_all(CallbackMode::STATE)
SetCallbackModeState ==
    /\ pc = "cleanup_mode"
    /\ mode' = [m \in DOMAIN mode |-> CallbackSTATE]
    /\ Issue("set_callback_mode_all", CallbackSTATE, "disable")
    /\ UNCHANGED <<prog, missing, argc, opened, motors, param, dev, inflight, arrived,
                   target, read_ok, rejected, rendered, printed>>

\* openarm.disable_all()
DisableAll ==
    /\ pc = "disable"
    /\ \E f \in BOOLEAN :
        IF f THEN /\ Throw("disable_all", 0)
                  /\ \E k \in 0..Len(motors) : inflight' = Telemetry(Prefix(k))
        ELSE /\ Issue("disable_all", 0, "disable_recv")
             /\ inflight' = Telemetry(Range(motors))
    /\ UNCHANGED <<prog, missing, argc, opened, motors, mode, param, dev, arrived,
                   target, read_ok, rejected, rendered, printed>>

\* return 0
Return ==
    /\ pc = "return"
    /\ exit_code' = SuccessReturn
    /\ pc' = "done"
    /\ UNCHANGED <<prog, missing, argc, opened, motors, mode, param, dev, inflight,
                   arrived, target, read_ok, rejected, rendered, printed, ops, fault,
                   reported>>

Next ==
    \/ CheckArgs
    \/ Open
    \/ InitArmMotors
    \/ InitGripperMotor
    \/ SetCallbackModeParam
    \/ QueryParamAll
    \/ RecvAll
    \/ Render
    \/ ReadTarget
    \/ WriteParamAll
    \/ RejectTarget
    \/ SetCallbackModeState
    \/ DisableAll
    \/ Return

Spec == Init /\ [][Next]_vars

----------------------------------------------------------------------------
(* The transaction engine on its own: one Query-All and its collection     *)
(* window on a complete registry whose caller left any of the motors in    *)
(* either callback mode, with or without an earlier recorded value.        *)

EngineInit ==
    /\ prog = "engine"
    /\ argc = 2
    /\ pc = "p1_query"
    /\ opened = TRUE
    /\ motors = [i \in 1..NumArm |-> i] \o <<GripperSendId>>
    /\ mode \in [AllMotors -> {CallbackSTATE, CallbackPARAM}]
    /\ param \in [AllMotors -> {NotYetObserved, Observed(maxMode - 1)}]
    /\ dev \in DevInits
    /\ inflight = {}
    /\ arrived = {}
    /\ target = TargetDefault
    /\ read_ok = TRUE
    /\ rejected = FALSE
    /\ rendered = <<>>
    /\ printed = <<>>
    /\ missing \in MissingDefaults
    /\ ops = <<>>
    /\ fault = "none"
    /\ reported = "none"
    /\ exit_code = NotExited

EngineNext ==
    \/ QueryParamAll
    \/ RecvAll

EngineSpec == EngineInit /\ [][EngineNext]_vars

TypeOK ==
    /\ pc \in {"start", "open", "init_arm", "init_gripper", "p1_mode",
               "p1_query", "p1_recv", "p1_render", "read_target", "validate",
               "write_recv", "p2_mode", "p2_query", "p2_recv", "p2_render",
               "cleanup_mode", "disable", "disable_recv", "return", "done"}
    /\ exit_code \in {NotExited, SuccessReturn, UsageReturn, CatchReturn}

----------------------------------------------------------------------------
(* Vocabulary of the properties *)

Last(s) == s[Len(s)]

OpsNamed(name) == SelectSeq(ops, LAMBDA o : o.op = name)

ModeSwitches == OpsNamed("set_callback_mode_all")

\* the operations that touch the bus and can raise a transport fault
TransportOps == {"open", "init_arm_motors", "init_gripper_motor",
                 "query_param_all", "write_param_all", "disable_all",
                 "recv_all"}

SetupOps == <<Op("open", 0), Op("init_arm_motors", 0), Op("init_gripper_motor", 0)>>

PrintOps == <<Op("set_callback_mode_all", CallbackPARAM),
              Op("query_param_all", 0), Op("recv_all", QueryTimeout)>>

CleanupOps == <<Op("set_callback_mode_all", CallbackSTATE),
                Op("disable_all", 0), Op("recv_all", DisableTimeout)>>

\* the operator's value lies strictly between the range markers
InOpenRange(t) == t \in (minMode + 1)..(maxMode - 1)

\* the run is over and nothing was thrown, the arguments being well-formed
FaultFreeDone == pc = "done" /\ fault = "none" /\ argc \in {2, 3}

\* the set session has executed its validation branch
Validated == prog = "set" /\ rendered # <<>> /\ pc \notin {"read_target", "validate"}

----------------------------------------------------------------------------
(* C1: whenever a Query-All request is sent, in either session, the whole  *)
(* registry (every arm motor and the gripper) is in callback mode PARAM,   *)
(* and the latest mode switch before the query was the switch to PARAM.    *)
C1_ParamModeBeforeEveryQuery ==
    [][(Len(ops') = Len(ops) + 1 /\ Last(ops').op = "query_param_all")
        => /\ Range(motors) = AllMotors
           /\ \A m \in AllMotors : mode[m] = CallbackPARAM
           /\ ModeSwitches # <<>>
           /\ Last(ModeSwitches).arg = CallbackPARAM
           /\ Last(ops) = Op("set_callback_mode_all", CallbackPARAM)]_vars

\* the second query of the set session has been sent
C1_Witness ==
    /\ prog = "set"
    /\ pc = "p2_recv"
    /\ Len(OpsNamed("query_param_all")) = 2
    /\ \A m \in AllMotors : mode[m] = CallbackPARAM

(* C2: in the set session a Write-All is issued exactly when the target is *)
(* strictly between minMode and maxMode: once the validation has run there *)
(* is one write carrying the target if minMode < target < maxMode, and no  *)
(* write at all otherwise (minMode and maxMode included).                  *)
C2_WriteIffStrictlyInside ==
    /\ \A i \in DOMAIN ops :
          ops[i].op = "write_param_all" => ops[i].arg = target /\ InOpenRange(target)
    /\ Validated =>
          Len(OpsNamed("write_param_all")) = IF InOpenRange(target) THEN 1 ELSE 0
    /\ prog = "query" => OpsNamed("write_param_all") = <<>>

\* the largest accepted code has been written
C2_Witness ==
    /\ Validated
    /\ target = maxMode - 1
    /\ OpsNamed("write_param_all") = <<Op("write_param_all", maxMode - 1)>>

(* C3, as the specification states it: once the target has been rejected   *)
(* no second query is broadcast.                                           *)
C3_NoQueryAfterRejection ==
    rejected => Len(OpsNamed("query_param_all")) <= 1

(* C3, amended: a rejected target skips the write only; the second print   *)
(* pass (switch to PARAM, Query-All, 2000 ms window) still runs and the    *)
(* cleanup follows it.                                                     *)
C3_RejectionSkipsOnlyTheWrite ==
    /\ rejected => OpsNamed("write_param_all") = <<>>
    /\ (rejected /\ FaultFreeDone) =>
          ops = SetupOps \o PrintOps \o PrintOps \o CleanupOps

\* a rejected run that went through the second query and the cleanup
C3_Witness ==
    /\ rejected
    /\ FaultFreeDone
    /\ target = maxMode
    /\ Len(OpsNamed("query_param_all")) = 2

(* C4: a fault-free run of the set session ends with the cleanup, whether  *)
(* the target was accepted or rejected: switch of every motor to STATE,    *)
(* disable-all, 1000 ms window, in this order and as the last operations;  *)
(* no query or write is ever issued after the switch to STATE.             *)
C4_CleanupEndsTheSetSession ==
    prog = "set" =>
      /\ FaultFreeDone =>
            /\ Len(ops) >= 3
            /\ SubSeq(ops, Len(ops) - 2, Len(ops)) = CleanupOps
            /\ \A m \in AllMotors : mode[m] = CallbackSTATE
            /\ Len(rendered) = 2
            /\ rejected \/ Len(OpsNamed("write_param_all")) = 1
      /\ \A i, j \in DOMAIN ops :
            (i < j /\ ops[i] = Op("set_callback_mode_all", CallbackSTATE))
               => ops[j].op \notin {"query_param_all", "write_param_all",
                                    "set_callback_mode_all"}

\* a finished set session whose target was accepted
C4_Witness ==
    /\ prog = "set"
    /\ FaultFreeDone
    /\ ~rejected
    /\ Last(ops) = Op("recv_all", DisableTimeout)

\* the run ended on a fault raised by disable-all or by the 1000 ms window
CleanupFault ==
    /\ pc = "done"
    /\ \/ fault = "disable_all"
       \/ fault = "recv_all" /\ Last(ops).arg = DisableTimeout

(* C5, as the specification states it: a fault raised in the cleanup       *)
(* leaves the exit status at 0.                                            *)
C5_CleanupFaultKeepsStatus ==
    CleanupFault => exit_code = SuccessReturn

(* C5, amended: a fault raised in the cleanup is handled like every other  *)
(* transport fault: it is reported and the process exits with -1.          *)
C5_CleanupFaultExitsMinusOne ==
    CleanupFault => exit_code = CatchReturn /\ reported = "error"

\* the 1000 ms window of a query session threw
C5_Witness ==
    /\ CleanupFault
    /\ prog = "query"
    /\ fault = "recv_all"
    /\ Len(rendered) = 1

(* C6: a transport fault ends the session at once: the faulting operation  *)
(* is the last one issued (no retry, nothing after it), the fault is       *)
(* reported and the exit status is -1, which is neither 0 nor 1.           *)
C6_FaultAborts ==
    [][/\ fault' # "none" =>
            /\ fault' \in TransportOps
            /\ pc' = "done"
            /\ Last(ops').op = fault'
            /\ reported' = "error"
            /\ exit_code' = -1
            /\ exit_code' \notin {SuccessReturn, UsageReturn}
       /\ fault # "none" => ops' = ops /\ exit_code' = exit_code]_vars

\* the write of the set session threw
C6_Witness ==
    /\ fault = "write_param_all"
    /\ pc = "done"
    /\ exit_code = -1
    /\ Len(OpsNamed("write_param_all")) = 1

(* C7: with an argument count other than 2 or 3 either program exits with  *)
(* a non-zero status and without any bus I/O: no channel, no registered    *)
(* motor, no operation issued, no frame sent or received.                  *)
C7_BadArgsNoBusIO ==
    argc \notin {2, 3} =>
      /\ ~opened
      /\ motors = <<>>
      /\ ops = <<>>
      /\ inflight = {} /\ arrived = {}
      /\ fault = "none"
      /\ pc \in {"start", "done"}
      /\ pc = "done" => exit_code = UsageReturn /\ exit_code # 0 /\ reported = "usage"

\* the set program was started with too many arguments and has exited
C7_Witness ==
    /\ prog = "set"
    /\ argc > 3
    /\ pc = "done"
    /\ exit_code = UsageReturn

(* C8: silence is no error: a run in which nothing but a transport         *)
(* operation could have thrown, and none did, renders every motor in each  *)
(* print pass, runs the cleanup and exits with 0, whichever motors replied.*)
C8_SilenceIsNoError ==
    (pc = "done" /\ argc \in {2, 3} /\ fault \notin TransportOps) =>
      /\ exit_code = SuccessReturn
      /\ reported = "none"
      /\ Len(rendered) = IF prog = "query" THEN 1 ELSE 2
      /\ \A i \in DOMAIN rendered : DOMAIN rendered[i] = AllMotors
      /\ SubSeq(ops, Len(ops) - 2, Len(ops)) = CleanupOps

\* a finished set session in which the gripper never replied and an arm
\* motor did
C8_Witness ==
    /\ prog = "set"
    /\ FaultFreeDone
    /\ param[GripperSendId] = NotYetObserved
    /\ param[1] # NotYetObserved
    /\ exit_code = SuccessReturn

TwoQueriesNoWrite == prog = "set" /\ Len(rendered) = 2 /\ ~InOpenRange(target)

(* C10, as the specification states it: with no write between the two      *)
(* Query-All cycles, every motor's value after the second cycle equals its *)
(* value after the first.                                                  *)
C10_SecondPassIdentical ==
    TwoQueriesNoWrite => \A m \in AllMotors : rendered[2][m] = rendered[1][m]

(* C10, amended: with no write between the two Query-All cycles, every     *)
(* motor that had an observed value after the first cycle has the same     *)
(* value after the second; a motor not yet observed after the first cycle  *)
(* may become observed in the second, and then shows its register.         *)
C10_ObservedValuesStable ==
    TwoQueriesNoWrite =>
      \A m \in AllMotors :
         /\ rendered[1][m] # NotYetObserved => rendered[2][m] = rendered[1][m]
         /\ rendered[2][m] \in {NotYetObserved, RenderValue(Observed(dev[m]))}

\* target 0 = minMode rejected; one motor observed in both passes, one
\* observed in the second pass only
C10_Witness ==
    /\ TwoQueriesNoWrite
    /\ target = minMode
    /\ \E m \in AllMotors : rendered[1][m] # NotYetObserved /\ rendered[2][m] = rendered[1][m]
    /\ \E m \in AllMotors : rendered[1][m] = NotYetObserved /\ rendered[2][m] # NotYetObserved

(* C11: a motor that never replied is told apart from a motor that replied *)
(* with code 0: in every print pass the code obtained for a motor without  *)
(* a recorded value differs from the code obtained for a motor whose       *)
(* recorded value is 0.                                                    *)
C11_SilentDiffersFromZero ==
    \A i \in DOMAIN printed :
       \A m1, m2 \in AllMotors :
          (rendered[i][m1] = NotYetObserved /\ rendered[i][m2] = Observed(0))
             => printed[i][m1] # printed[i][m2]

\* the operations that send a request to every motor
Broadcasts == {"query_param_all", "write_param_all", "disable_all"}

\* the bus traffic of the run: broadcasts and collection windows, in order
BusOps == SelectSeq(ops, LAMBDA o : o.op \in Broadcasts \cup {"recv_all"})

(* C12: in both sessions broadcasts and collection windows alternate: the  *)
(* bus traffic starts with a broadcast, every broadcast that did not throw *)
(* is followed at once by its own recv_all (1000 ms after disable-all,     *)
(* 2000 ms otherwise), and while a window is still to run no other         *)
(* broadcast is issued.                                                    *)
C12_BroadcastCollectAlternate ==
    /\ \A i \in DOMAIN BusOps :
          /\ (i % 2 = 1) => BusOps[i].op \in Broadcasts
          /\ (i % 2 = 0) =>
                BusOps[i] = Op("recv_all",
                               IF BusOps[i - 1].op = "disable_all"
                               THEN DisableTimeout ELSE QueryTimeout)
    /\ (fault = "none" /\ pc \notin {"p1_recv", "write_recv", "p2_recv", "disable_recv"})
          => Len(BusOps) % 2 = 0 /\ inflight = {}
    /\ pc \in {"p1_recv", "write_recv", "p2_recv", "disable_recv"}
          => Len(BusOps) % 2 = 1

\* a finished set session with its four transactions
C12_Witness ==
    /\ prog = "set"
    /\ FaultFreeDone
    /\ Len(BusOps) = 8
    /\ BusOps[3].op = "write_param_all"

(* C13: a fault-free query session runs switch to PARAM, Query-All,        *)
(* 2000 ms window, render, switch to STATE, disable-all, 1000 ms window in *)
(* this order, and every motor is in STATE mode when it exits.             *)
C13_QueryBracketClosed ==
    prog = "query" =>
      /\ FaultFreeDone =>
            /\ ops = SetupOps \o PrintOps \o CleanupOps
            /\ Len(printed) = 1
            /\ \A m \in AllMotors : mode[m] = CallbackSTATE
      /\ printed # <<>> =>
            /\ Len(ops) >= Len(SetupOps \o PrintOps)
            /\ SubSeq(ops, 1, Len(SetupOps \o PrintOps)) = SetupOps \o PrintOps
      /\ Len(ops) > Len(SetupOps \o PrintOps) =>
            /\ printed # <<>>
            /\ ops[Len(SetupOps \o PrintOps) + 1] = Op("set_callback_mode_all", CallbackSTATE)
      /\ \A i \in DOMAIN ops :
            ops[i].op = "disable_all" =>
               i > 1 /\ ops[i - 1] = Op("set_callback_mode_all", CallbackSTATE)

\* a query session that returned 0
C13_Witness ==
    /\ prog = "query"
    /\ FaultFreeDone
    /\ exit_code = SuccessReturn
    /\ Last(ops) = Op("recv_all", DisableTimeout)

(* C14: a collected frame whose source address belongs to no registered    *)
(* motor changes nothing: in a window that collects such a frame the       *)
(* callback modes stay, and the recorded value of every motor whose own    *)
(* reply was not collected stays; the frame by itself raises no error.     *)
C14_ForeignFrameDiscarded ==
    [][(Len(ops') = Len(ops) + 1 /\ Last(ops').op = "recv_all"
          /\ ForeignRecvId \in arrived')
        => /\ mode' = mode
           /\ \A m \in DOMAIN param :
                 RecvId(m) \notin arrived' => param'[m] = param[m]
           /\ (arrived' = {ForeignRecvId} /\ fault' = "none") =>
                 param' = param /\ reported' = "none"]_vars

\* the first window collected the foreign frame only and the run went on
C14_Witness ==
    /\ pc = "p1_render"
    /\ arrived = {ForeignRecvId}
    /\ fault = "none"
    /\ \A m \in AllMotors : param[m] = NotYetObserved

(* C15: in a Query-All collection window a motor whose callback mode is    *)
(* STATE keeps its recorded value whatever frame of its own is collected;  *)
(* a recorded value changes only for a motor in PARAM mode whose frame was *)
(* collected.                                                              *)
C15_StateModeNotRecorded ==
    [][(Len(ops') = Len(ops) + 1 /\ Last(ops').op = "recv_all")
        => \A m \in DOMAIN param :
              /\ mode[m] = CallbackSTATE => param'[m] = param[m]
              /\ param'[m] # param[m] =>
                    mode[m] = CallbackPARAM /\ RecvId(m) \in arrived']_vars

\* the window collected the reply of a motor in STATE mode, whose recorded
\* value stayed apart from its register, and the reply of a motor in PARAM
\* mode, which was recorded
C15_Witness ==
    /\ prog = "engine"
    /\ pc = "p1_render"
    /\ \E m \in AllMotors :
          /\ mode[m] = CallbackSTATE
          /\ RecvId(m) \in arrived
          /\ param[m] # Observed(dev[m])
    /\ \E m \in AllMotors :
          /\ mode[m] = CallbackPARAM
          /\ RecvId(m) \in arrived
          /\ param[m] = Observed(dev[m])

\* positions of the set session from the first query to the switch to STATE
ParamSpan ==
    /\ prog = "set"
    /\ pc \in {"p1_query", "p1_recv", "p1_render", "read_target", "validate",
               "write_recv", "p2_mode", "p2_query", "p2_recv", "p2_render",
               "cleanup_mode"}

(* C16: in the set session every motor is in PARAM mode at every position  *)
(* from the first query to the cleanup, the write and its window included; *)
(* the frames collected in the write's window are recorded as parameter    *)
(* values before the second query is sent.                                 *)
C16_ParamModeSpansTheWrite ==
    /\ ParamSpan =>
          /\ \A m \in AllMotors : mode[m] = CallbackPARAM
          /\ Op("set_callback_mode_all", CallbackSTATE) \notin Range(ops)
    /\ (prog = "set" /\ pc = "p2_mode" /\ OpsNamed("write_param_all") # <<>>) =>
          /\ Len(OpsNamed("query_param_all")) = 1
          /\ Last(ops) = Op("recv_all", QueryTimeout)
          /\ \A m \in AllMotors :
                RecvId(m) \in arrived => param[m] = Observed(target)

\* before the second query, a value shown in the first pass has been
\* overwritten by a frame of the write's window
C16_Witness ==
    /\ prog = "set"
    /\ pc = "p2_mode"
    /\ OpsNamed("write_param_all") # <<>>
    /\ \E m \in AllMotors :
          /\ RecvId(m) \in arrived
          /\ rendered[1][m] \notin {NotYetObserved, Observed(target)}
          /\ param[m] = Observed(target)

\* the run ended on a fault raised between the first switch to PARAM and the
\* switch back to STATE
FaultInsideBracket ==
    /\ pc = "done"
    /\ fault # "none"
    /\ Op("set_callback_mode_all", CallbackPARAM) \in Range(ops)
    /\ Op("set_callback_mode_all", CallbackSTATE) \notin Range(ops)

(* C17: a run that ends on a fault raised after the first switch to PARAM  *)
(* and before the switch to STATE exits with every motor in PARAM mode and *)
(* without a disable-all.                                                  *)
C17_NoCleanupAfterFault ==
    FaultInsideBracket =>
       /\ \A m \in AllMotors : mode[m] = CallbackPARAM
       /\ OpsNamed("disable_all") = <<>>
       /\ Last(ops).op = fault
       /\ exit_code = CatchReturn

\* the second query window of the set session threw
C17_Witness ==
    /\ prog = "set"
    /\ FaultInsideBracket
    /\ fault = "recv_all"
    /\ Len(OpsNamed("query_param_all")) = 2
    /\ \A m \in AllMotors : mode[m] = CallbackPARAM

(* C18: the codes listed under "Available modes" are exactly the targets   *)
(* the validation accepts, the integers strictly between minMode and       *)
(* maxMode: a write is issued if and only if the target is a listed code,  *)
(* and a target is rejected if and only if it is not listed.               *)
C18_ListedIffAccepted ==
    /\ AvailableModes = {i \in (minMode - TargetSlack)..(maxMode + TargetSlack) :
                            minMode < i /\ i < maxMode}
    /\ Validated =>
          /\ (target \in AvailableModes) <=> (OpsNamed("write_param_all") # <<>>)
          /\ (target \notin AvailableModes) <=> rejected
    /\ \A i \in DOMAIN ops :
          ops[i].op = "write_param_all" => ops[i].arg \in AvailableModes

\* the smallest listed code was typed and written
C18_Witness ==
    /\ prog = "set"
    /\ pc = "write_recv"
    /\ target = minMode + 1
    /\ target \in AvailableModes
    /\ Last(ops) = Op("write_param_all", target)

(* C19: when no integer could be read the target is 0, which is minMode    *)
(* and is rejected: no write is ever issued in that run, and the run still *)
(* goes through the second query and the cleanup.                          *)
C19_FailedReadIsRejected ==
    ~read_ok =>
       /\ target = 0 /\ target = minMode
       /\ OpsNamed("write_param_all") = <<>>
       /\ Validated => rejected
       /\ FaultFreeDone =>
             /\ ops = SetupOps \o PrintOps \o PrintOps \o CleanupOps
             /\ Len(printed) = 2

\* a run whose read failed and that returned 0 after two print passes
C19_Witness ==
    /\ ~read_ok
    /\ FaultFreeDone
    /\ rejected
    /\ Len(printed) = 2
    /\ exit_code = SuccessReturn

====
